---- MODULE Spec2Model ----
(***************************************************************************)
(* windows-auto-sleep: a primary process holds a countdown to a forced     *)
(* power-off; a second launch of the program asks the primary, through     *)
(* named Windows objects and a temp file, to cancel it.                    *)
(*                                                                         *)
(* The model follows src/main.py, src/core/ipc.py, src/core/scheduler.py,  *)
(* src/core/password.py and src/gui/deactivation_window.py.  One action is *)
(* one step of one thread between two accesses to state that another       *)
(* thread or process can see.                                              *)
(*                                                                         *)
(* Named objects follow the Win32 rules: an object lives as long as a      *)
(* handle to it is open, CreateMutex / CreateEvent on an existing name     *)
(* return a handle to the existing object, OpenEvent / OpenMutex fail when *)
(* the name does not exist, and the handles of a process are closed when   *)
(* it exits.                                                               *)
(*                                                                         *)
(* Spec is the whole program.  PwSpec, MailSpec and SchedSpec are the      *)
(* password store, the temp-file mailbox and ShutdownScheduler, each used  *)
(* on its own by a caller that may make any call at any time; IpcSpec is   *)
(* ipc.py used that way by two processes.  CrashSpec is the program with a *)
(* first instance that can be ended from outside at any point, LiveSpec    *)
(* the program with its daemon threads scheduled fairly, RelaunchSpec the  *)
(* program started once more after one of its processes has ended.         *)
(***************************************************************************)
EXTENDS Integers, Sequences, FiniteSets, TLC

\* ---------------------------------------------------------------- bounds
LaunchOrder == <<"p1", "p2">>   \* launches of the program, in order
Procs == {LaunchOrder[k] : k \in 1..Len(LaunchOrder)}
MaxAttempts == 2                 \* submits per deactivation window
MaxMinutes == 1                  \* largest duration the user enters
\* A str is the sequence of its characters; "" is EmptyStr.
EmptyStr == <<>>
ActPw == {EmptyStr, <<"a">>}     \* password entered on activation (EmptyStr = none)
Typed == {<<"a">>, <<"b">>}      \* text typed into the deactivation entry
Salts == {1}                     \* bcrypt.gensalt() results

Objs == {"mutex", "cancel", "ack", "nack"}
Events == {"cancel", "ack", "nack"}
Attempts == 1..MaxAttempts
AttIds == Procs \X Attempts

VARIABLES
    now,        \* datetime.now(), in minutes
    pwFile,     \* password._PASSWD_FILE: <<>> or <<stored hash>>
    tmpFile,    \* ipc._TEMP_REQUEST: <<>> or <<text>>
    sig,        \* signalled state of the three named events
    h,          \* ipc._mutex_handle .. _nack_handle of each process
    pc,         \* main thread of each process
    act,        \* run_activation's locals: activated["minutes"], ["password"]
    sched,      \* ShutdownScheduler: _fire_at, _cancel_event
    tpc,        \* the sleep-timer thread (ShutdownScheduler._run)
    mpc,        \* the cancel-monitor thread (_cancel_monitor)
    entered,    \* _cancel_monitor's local
    tray,       \* SleepTray of each process
    win,        \* DeactivationWindow: needs_password, button state, _pw_var
    att,        \* the _do_check threads of each deactivation window
    nAtt,       \* threads started so far by each window
    hist,       \* history: what has happened (read by the properties only)
    wake,       \* ShutdownScheduler._run: when its wait(timeout=delay_s) times out
    test        \* the caller of one component on its own: the bcrypt build in
                \* use, its last call and what the call returned

vars == <<now, pwFile, tmpFile, sig, h, pc, act, sched, tpc, mpc, entered,
          tray, win, att, nAtt, hist, wake, test>>

NoHandles == [o \in Objs |-> FALSE]
NoSched == [fire_at |-> -1, cancel_event |-> FALSE]
\* No wait of the timer thread that the model follows by wake.
NoWake == -1
\* No component is called on its own.  No password of the whole program is
\* longer than 72 bytes, so that the bcrypt builds do not differ there.
NoTest == [bcrypt |-> "truncates", n |-> 0, op |-> "none", arg |-> <<>>, ret |-> "none"]
\* A _do_check thread: its position, its argument, the handles and the result
\* of wait_for_response; first and alone are history (see Submit, AttOpenAck).
NoAttempt == [pc |-> "idle", pw |-> EmptyStr, ackH |-> FALSE, nackH |-> FALSE, res |-> "none",
              first |-> FALSE, alone |-> FALSE]

\* ------------------------------------------------------- named objects
\* Some handle to object o is open (module handles hh, thread handles aa).
HeldBy(o, hh, aa) ==
    \/ \E p \in Procs : hh[p][o]
    \/ o = "ack" /\ \E p \in Procs, i \in Attempts : aa[p][i].ackH
    \/ o = "nack" /\ \E p \in Procs, i \in Attempts : aa[p][i].nackH

ObjExists(o) == HeldBy(o, h, att)

\* An event whose last handle was closed is gone, and with it its state.
Norm(s, hh, aa) == [e \in Events |-> s[e] /\ HeldBy(e, hh, aa)]

\* ---------------------------------------------------------------- text
\* str.encode("utf-8") / bytes.decode("utf-8").  The characters are "a", "b",
\* "x", "y" (one byte each, themselves), "CR", "LF" (one byte each) and
\* "eacute" (U+00E9, the two bytes C3 A9).
Utf8Char(c) == IF c = "eacute" THEN <<"C3", "A9">> ELSE <<c>>

RECURSIVE Utf8(_)
Utf8(text) ==
    IF text = <<>> THEN <<>> ELSE Utf8Char(Head(text)) \o Utf8(Tail(text))

RECURSIVE Utf8Valid(_)
Utf8Valid(bytes) ==
    IF bytes = <<>> THEN TRUE
    ELSE IF Head(bytes) = "C3"
         THEN /\ Len(bytes) >= 2
              /\ bytes[2] = "A9"
              /\ Utf8Valid(SubSeq(bytes, 3, Len(bytes)))
         ELSE Head(bytes) # "A9" /\ Utf8Valid(Tail(bytes))

RECURSIVE Utf8Decode(_)
Utf8Decode(bytes) ==
    IF bytes = <<>> THEN <<>>
    ELSE IF Head(bytes) = "C3"
         THEN <<"eacute">> \o Utf8Decode(SubSeq(bytes, 3, Len(bytes)))
         ELSE <<Head(bytes)>> \o Utf8Decode(Tail(bytes))

\* Text mode with newline=None, writing on Windows: "\n" becomes os.linesep.
RECURSIVE WriteNewlines(_)
WriteNewlines(text) ==
    IF text = <<>> THEN <<>>
    ELSE (IF Head(text) = "LF" THEN <<"CR", "LF">> ELSE <<Head(text)>>)
         \o WriteNewlines(Tail(text))

\* Text mode with newline=None, reading: "\r\n" and "\r" become "\n".
RECURSIVE ReadNewlines(_)
ReadNewlines(text) ==
    IF text = <<>> THEN <<>>
    ELSE IF Head(text) = "CR"
         THEN <<"LF">> \o ReadNewlines(IF Len(text) >= 2 /\ text[2] = "LF"
                                       THEN SubSeq(text, 3, Len(text))
                                       ELSE Tail(text))
         ELSE <<Head(text)>> \o ReadNewlines(Tail(text))

\* Path.write_text(text, encoding="utf-8"): the bytes the file gets.
WriteText(text) == Utf8(WriteNewlines(text))

\* Path.read_text(encoding="utf-8") of a file holding bytes.
ReadText(bytes) == ReadNewlines(Utf8Decode(bytes))

\* ------------------------------------------------------------ password
\* bcrypt reads no more than 72 bytes of a password.  bcrypt before 5.0 hashes
\* the first 72 bytes of a longer one; bcrypt 5.0 and later raise ValueError
\* for it, in hashpw and in checkpw.  test.bcrypt is the build in use.
BcryptMax == 72
BcryptBuilds == {"truncates", "raises"}

First72(bytes) ==
    IF Len(bytes) > BcryptMax THEN SubSeq(bytes, 1, BcryptMax) ELSE bytes

BcryptRaises(plain) == test.bcrypt = "raises" /\ Len(Utf8(plain)) > BcryptMax

Digest(plain, salt) == <<salt, First72(Utf8(plain))>>
HashPw(plain, salt) == [salt |-> salt, digest |-> Digest(plain, salt)]
CheckPw(plain, stored) == Digest(plain, stored.salt) = stored.digest

HasPassword(file) == file # <<>>

\* verify_password that refuses when no password file exists.
VerifyPasswordFailClosed(plain, file) ==
    HasPassword(file) /\ ~BcryptRaises(plain) /\ CheckPw(plain, file[1])

\* verify_password that takes an empty candidate as "nothing to check".
VerifyPasswordEmptyPasses(plain, file) ==
    IF ~HasPassword(file) \/ plain = EmptyStr THEN TRUE
    ELSE IF BcryptRaises(plain) THEN FALSE
    ELSE CheckPw(plain, file[1])

\* "if not has_password(): return True"; an exception of checkpw gives False.
VerifyPassword(plain, file) ==
    IF ~HasPassword(file) THEN TRUE
    ELSE IF BcryptRaises(plain) THEN FALSE
    ELSE CheckPw(plain, file[1])

\* ------------------------------------------------------------ scheduler
IsActive(p) == tpc[p] \notin {"none", "done", "dead"}

\* ------------------------------------------------------------- history
\* hist.raisers: the attempts <<process, thread, text>> that set the cancel
\* event since it was last unsignalled; hist.unseen: those of them no monitor
\* has woken up for; hist.seen[p]: those monitor p has just woken up for.
\* The first two are emptied when the event is unsignalled or gone in s2.
\* hist.resp[p]: the events monitor p has set for the request it is handling.
HistSig(hs, s2) ==
    IF s2["cancel"] THEN hs ELSE [hs EXCEPT !.raisers = {}, !.unseen = {}]

\* ----------------------------------------------------------------- Init
Init ==
    /\ now = 0
    /\ pwFile = <<>>
    /\ tmpFile = <<>>
    /\ sig = [e \in Events |-> FALSE]
    /\ h = [p \in Procs |-> NoHandles]
    /\ pc = [p \in Procs |-> "off"]
    /\ act = [p \in Procs |-> [minutes |-> 0, password |-> EmptyStr]]
    /\ sched = [p \in Procs |-> NoSched]
    /\ tpc = [p \in Procs |-> "none"]
    /\ mpc = [p \in Procs |-> "none"]
    /\ entered = [p \in Procs |-> EmptyStr]
    /\ tray = [p \in Procs |-> "none"]
    /\ win = [p \in Procs |-> [needs_password |-> FALSE, loading |-> FALSE, pw_var |-> EmptyStr]]
    /\ att = [p \in Procs |-> [i \in Attempts |-> NoAttempt]]
    /\ nAtt = [p \in Procs |-> 0]
    /\ hist = [role |-> [p \in Procs |-> "none"],
               fired |-> {},
               acked |-> {},
               shut |-> {},
               raisers |-> {},
               unseen |-> {},
               seen |-> [p \in Procs |-> {}],
               resp |-> [p \in Procs |-> {}],
               okSent |-> FALSE,
               overlap |-> FALSE]
    /\ wake = NoWake
    /\ test = NoTest

\* ------------------------------------------------------ main.py: main()
\* Detection of a first instance by its password file instead of the mutex.
IsFirstInstanceRunningByFile == HasPassword(pwFile)

\* ipc.is_first_instance_running(): OpenMutex succeeds iff the mutex exists.
IsFirstInstanceRunning == ObjExists("mutex")

\* The user starts the program.
Launch(p) ==
    /\ pc[p] = "off"
    /\ \A k \in 2..Len(LaunchOrder) : LaunchOrder[k] = p => pc[LaunchOrder[k - 1]] # "off"
    /\ pc' = [pc EXCEPT ![p] = "main"]
    /\ UNCHANGED <<test, wake, now, pwFile, tmpFile, sig, h, act, sched, tpc, mpc, entered,
                   tray, win, att, nAtt, hist>>

\* main(): the role is decided by one look at the mutex.
Main(p) ==
    /\ pc[p] = "main"
    /\ IF IsFirstInstanceRunning
       THEN /\ pc' = [pc EXCEPT ![p] = "deactivation"]
            /\ hist' = [hist EXCEPT !.role[p] = "secondary"]
       ELSE /\ pc' = [pc EXCEPT ![p] = "activation"]
            /\ hist' = [hist EXCEPT !.role[p] = "primary"]
    /\ UNCHANGED <<test, wake, now, pwFile, tmpFile, sig, h, act, sched, tpc, mpc, entered,
                   tray, win, att, nAtt>>

\* ------------------------------------------- main.py: run_activation()
\* password.delete_password(): the file is removed if it exists.
DeletePassword(file) == <<>>

\* "Cleanup stale password file": has_password() then delete_password().
ActCleanup(p) ==
    /\ pc[p] = "activation"
    /\ pwFile' = IF HasPassword(pwFile) THEN DeletePassword(pwFile) ELSE pwFile
    /\ pc' = [pc EXCEPT ![p] = "awindow"]
    /\ UNCHANGED <<test, wake, now, tmpFile, sig, h, act, sched, tpc, mpc, entered,
                   tray, win, att, nAtt, hist>>

\* ActivationWindow: "Activate" with a positive duration and a password.
ActActivate(p) ==
    /\ pc[p] = "awindow"
    /\ \E m \in 1..MaxMinutes, w \in ActPw :
          act' = [act EXCEPT ![p] = [minutes |-> m, password |-> w]]
    /\ pc' = [pc EXCEPT ![p] = "setpw"]
    /\ UNCHANGED <<test, wake, now, pwFile, tmpFile, sig, h, sched, tpc, mpc, entered,
                   tray, win, att, nAtt, hist>>

\* ActivationWindow closed without activating: run_activation returns.
ActClose(p) ==
    /\ pc[p] = "awindow"
    /\ pc' = [pc EXCEPT ![p] = "exited"]
    /\ UNCHANGED <<test, wake, now, pwFile, tmpFile, sig, h, act, sched, tpc, mpc, entered,
                   tray, win, att, nAtt, hist>>

\* ActivationWindow "Uninstall": password.uninstall_app_data(), then quit.
ActUninstall(p) ==
    /\ pc[p] = "awindow"
    /\ pwFile' = DeletePassword(pwFile)
    /\ pc' = [pc EXCEPT ![p] = "exited"]
    /\ UNCHANGED <<test, wake, now, tmpFile, sig, h, act, sched, tpc, mpc, entered,
                   tray, win, att, nAtt, hist>>

\* password.set_password(plain): the bcrypt hash replaces the file.
SetPassword(plain, salt) == <<HashPw(plain, salt)>>

\* "if pw: password.set_password(pw)"; a ValueError of hashpw ends the process.
ActSetPw(p) ==
    /\ pc[p] = "setpw"
    /\ IF act[p].password = EmptyStr
       THEN pwFile' = pwFile /\ pc' = [pc EXCEPT ![p] = "create"]
       ELSE IF BcryptRaises(act[p].password)
       THEN pwFile' = pwFile /\ pc' = [pc EXCEPT ![p] = "exited"]
       ELSE /\ \E s \in Salts : pwFile' = SetPassword(act[p].password, s)
            /\ pc' = [pc EXCEPT ![p] = "create"]
    /\ UNCHANGED <<test, wake, now, tmpFile, sig, h, act, sched, tpc, mpc, entered,
                   tray, win, att, nAtt, hist>>

\* ipc.create_server_objects(): CreateMutex and three CreateEvent calls.  Each
\* returns a handle whether or not the name already exists; an event that
\* already exists keeps its state, a new one starts unsignalled.
CreateServerObjects(p) == [o \in Objs |-> TRUE]

ActCreate(p) ==
    /\ pc[p] = "create"
    /\ h' = [h EXCEPT ![p] = CreateServerObjects(p)]
    /\ sig' = [e \in Events |-> IF ObjExists(e) THEN sig[e] ELSE FALSE]
    /\ pc' = [pc EXCEPT ![p] = "schedule"]
    /\ UNCHANGED <<test, wake, now, pwFile, tmpFile, act, sched, tpc, mpc, entered,
                   tray, win, att, nAtt, hist>>

\* ipc.wait_for_cancel(500) as the monitor calls it: False at once when
\* _cancel_handle is None ("check"); WAIT_OBJECT_0 at once when the event is
\* signalled ("read"); otherwise the thread blocks in WaitForSingleObject
\* ("wait") until SetEvent releases it or 500 ms pass.
WaitForCancel(hp, s) ==
    IF ~hp["cancel"] THEN "check"
    ELSE IF s["cancel"] THEN "read"
    ELSE "wait"

\* History of a monitor that has got to position r.
HistEnter(hs, p, r) ==
    IF r = "read" THEN [hs EXCEPT !.seen[p] = hs.raisers, !.unseen = {}] ELSE hs

\* ShutdownScheduler(callback), schedule_duration(minutes) and _start(); then
\* the tray and the cancel-monitor thread are started and the main thread
\* joins the monitor.
ActSchedule(p) ==
    /\ pc[p] = "schedule"
    /\ act[p].minutes > 0
    /\ ~IsActive(p)
    /\ sched' = [sched EXCEPT ![p] = [fire_at |-> now + act[p].minutes,
                                     cancel_event |-> FALSE]]
    /\ tpc' = [tpc EXCEPT ![p] = "wait"]
    /\ tray' = [tray EXCEPT ![p] = "running"]
    /\ mpc' = [mpc EXCEPT ![p] = WaitForCancel(h[p], sig)]
    /\ hist' = HistEnter(hist, p, mpc'[p])
    /\ pc' = [pc EXCEPT ![p] = "join"]
    /\ UNCHANGED <<test, wake, now, pwFile, tmpFile, sig, h, act, entered, win, att, nAtt>>

\* monitor.join() returns, run_activation and main return, the process ends:
\* its daemon threads stop and the system closes its handles.
ActExit(p) ==
    /\ pc[p] = "join"
    /\ mpc[p] = "done"
    /\ pc' = [pc EXCEPT ![p] = "exited"]
    /\ tpc' = [tpc EXCEPT ![p] = "dead"]
    /\ sched' = [sched EXCEPT ![p] = NoSched]
    /\ tray' = [tray EXCEPT ![p] = "none"]
    /\ h' = [h EXCEPT ![p] = NoHandles]
    /\ sig' = Norm(sig, h', att)
    /\ hist' = HistSig([hist EXCEPT !.resp[p] = {}], sig')
    /\ UNCHANGED <<test, wake, now, pwFile, tmpFile, act, mpc, entered, win, att, nAtt>>

\* ------------------------------------- scheduler.py: ShutdownScheduler._run
\* The clock advances.  Time is followed only while a timer is pending and
\* until its deadline has passed.
Tick ==
    /\ \E p \in Procs : tpc[p] = "wait" /\ now <= sched[p].fire_at
    /\ now' = now + 1
    /\ UNCHANGED <<test, wake, pwFile, tmpFile, sig, h, pc, act, sched, tpc, mpc,
                   entered, tray, win, att, nAtt, hist>>

\* _cancel_event.wait(timeout=delay_s) returns False: the deadline passed with
\* the event unset, and _run goes on to call the callback.
TimerExpire(p) ==
    /\ tpc[p] = "wait"
    /\ now >= sched[p].fire_at
    /\ ~sched[p].cancel_event
    /\ tpc' = [tpc EXCEPT ![p] = "cb_destroy"]
    /\ hist' = [hist EXCEPT !.fired = @ \cup {p}]
    /\ UNCHANGED <<test, wake, now, pwFile, tmpFile, sig, h, pc, act, sched, mpc, entered,
                   tray, win, att, nAtt>>

\* _cancel_event.wait returns True: cancelled, the thread ends.
TimerCancelled(p) ==
    /\ tpc[p] = "wait"
    /\ sched[p].cancel_event
    /\ tpc' = [tpc EXCEPT ![p] = "done"]
    /\ UNCHANGED <<test, wake, now, pwFile, tmpFile, sig, h, pc, act, sched, mpc, entered,
                   tray, win, att, nAtt, hist>>

\* destroy_server_objects that leaves _mutex_handle as it was.
DestroyKeepsMutex(p) == [NoHandles EXCEPT !["mutex"] = h[p]["mutex"]]

\* ipc.destroy_server_objects(): every non-None handle is closed, all four
\* variables become None.
DestroyServerObjects(p) == NoHandles

\* _on_timer_fired without its first statement: the handles stay open.
CbDestroySkipped(p) ==
    /\ tpc[p] = "cb_destroy"
    /\ tpc' = [tpc EXCEPT ![p] = "cb_tray"]
    /\ UNCHANGED <<test, wake, now, pwFile, tmpFile, sig, h, pc, act, sched, mpc, entered,
                   tray, win, att, nAtt, hist>>

\* _on_timer_fired, first statement.
CbDestroy(p) ==
    /\ tpc[p] = "cb_destroy"
    /\ h' = [h EXCEPT ![p] = DestroyServerObjects(p)]
    /\ sig' = Norm(sig, h', att)
    /\ hist' = HistSig(hist, sig')
    /\ tpc' = [tpc EXCEPT ![p] = "cb_tray"]
    /\ UNCHANGED <<test, wake, now, pwFile, tmpFile, pc, act, sched, mpc, entered,
                   tray, win, att, nAtt>>

\* SleepTray.stop()
TrayStop(t) == "stopped"

CbTray(p) ==
    /\ tpc[p] = "cb_tray"
    /\ tray' = [tray EXCEPT ![p] = TrayStop(@)]
    /\ tpc' = [tpc EXCEPT ![p] = "cb_delpw"]
    /\ UNCHANGED <<test, wake, now, pwFile, tmpFile, sig, h, pc, act, sched, mpc, entered,
                   win, att, nAtt, hist>>

CbDelPw(p) ==
    /\ tpc[p] = "cb_delpw"
    /\ pwFile' = DeletePassword(pwFile)
    /\ tpc' = [tpc EXCEPT ![p] = "cb_shutdown"]
    /\ UNCHANGED <<test, wake, now, tmpFile, sig, h, pc, act, sched, mpc, entered,
                   tray, win, att, nAtt, hist>>

\* _run with "while not cancelled: self._callback()": the callback is run
\* again when it returns.
CbShutdownLoops(p) ==
    /\ tpc[p] = "cb_shutdown"
    /\ hist' = [hist EXCEPT !.shut = @ \cup {p}]
    /\ tpc' = [tpc EXCEPT ![p] = "cb_destroy"]
    /\ UNCHANGED <<test, wake, now, pwFile, tmpFile, sig, h, pc, act, sched, mpc, entered,
                   tray, win, att, nAtt>>

\* shutdown.execute_shutdown(); _run returns and the thread ends.
CbShutdown(p) ==
    /\ tpc[p] = "cb_shutdown"
    /\ hist' = [hist EXCEPT !.shut = @ \cup {p}]
    /\ tpc' = [tpc EXCEPT ![p] = "done"]
    /\ UNCHANGED <<test, wake, now, pwFile, tmpFile, sig, h, pc, act, sched, mpc, entered,
                   tray, win, att, nAtt>>

\* SetEvent on the ack or nack event releases every thread blocked on it.
Release(aa, result) ==
    [q \in Procs |-> [i \in Attempts |->
        IF aa[q][i].pc = "blocked"
        THEN [aa[q][i] EXCEPT !.pc = "woken", !.res = result]
        ELSE aa[q][i]]]

\* ------------------------------------------- main.py: _cancel_monitor()
\* WaitForSingleObject(_cancel_handle, 500) times out: no SetEvent came while
\* the thread was blocked.
MonTimeout(p) ==
    /\ mpc[p] = "wait"
    /\ h[p]["cancel"]
    /\ mpc' = [mpc EXCEPT ![p] = "check"]
    /\ UNCHANGED <<test, wake, now, pwFile, tmpFile, sig, h, pc, act, sched, tpc, entered,
                   tray, win, att, nAtt, hist>>

\* The timer callback closed _cancel_handle while the monitor was waiting on
\* it.  Win32 leaves the wait undefined: it may go on against the object
\* (signalled if the event is, a timeout otherwise) or fail, and a failed wait
\* raises in pywin32 and ends the monitor thread.
MonWaitClosed(p) ==
    /\ mpc[p] = "wait"
    /\ ~h[p]["cancel"]
    /\ \E r \in {"timeout", "failed"} \cup (IF sig["cancel"] THEN {"signalled"} ELSE {}) :
          mpc' = [mpc EXCEPT ![p] =
                    CASE r = "timeout" -> "check"
                      [] r = "signalled" -> "read"
                      [] r = "failed" -> "done"]
    /\ hist' = HistEnter(hist, p, mpc'[p])
    /\ UNCHANGED <<test, wake, now, pwFile, tmpFile, sig, h, pc, act, sched, tpc, entered,
                   tray, win, att, nAtt>>

\* A monitor without the is_active test: after a timeout it waits again.
MonCheckNoTest(p) ==
    /\ mpc[p] = "check"
    /\ mpc' = [mpc EXCEPT ![p] = WaitForCancel(h[p], sig)]
    /\ hist' = HistEnter(hist, p, mpc'[p])
    /\ UNCHANGED <<test, wake, now, pwFile, tmpFile, sig, h, pc, act, sched, tpc, entered,
                   tray, win, att, nAtt>>

\* "if _sched is not None and not _sched.is_active: break; continue"
MonCheck(p) ==
    /\ mpc[p] = "check"
    /\ mpc' = [mpc EXCEPT ![p] = IF ~IsActive(p) THEN "done" ELSE WaitForCancel(h[p], sig)]
    /\ hist' = HistEnter(hist, p, mpc'[p])
    /\ UNCHANGED <<test, wake, now, pwFile, tmpFile, sig, h, pc, act, sched, tpc, entered,
                   tray, win, att, nAtt>>

\* ipc.read_cancel_password(): the text of the temp file, which is then
\* deleted; EmptyStr when the file cannot be read.
ReadCancelPassword(file) ==
    IF file = <<>> \/ ~Utf8Valid(file[1]) THEN [text |-> EmptyStr, file |-> file]
    ELSE [text |-> ReadText(file[1]), file |-> <<>>]

MonRead(p) ==
    /\ mpc[p] = "read"
    /\ entered' = [entered EXCEPT ![p] = ReadCancelPassword(tmpFile).text]
    /\ tmpFile' = ReadCancelPassword(tmpFile).file
    /\ mpc' = [mpc EXCEPT ![p] = "verify"]
    /\ hist' = [hist EXCEPT !.seen[p] = {}]
    /\ UNCHANGED <<test, wake, now, pwFile, sig, h, pc, act, sched, tpc,
                   tray, win, att, nAtt>>

\* A monitor that deletes the password file as soon as verify_password has
\* returned True, before it cancels and answers.
MonVerifyDeletes(p) ==
    /\ mpc[p] = "verify"
    /\ mpc' = [mpc EXCEPT ![p] =
                 IF VerifyPassword(entered[p], pwFile) THEN "cancel" ELSE "nack"]
    /\ pwFile' = IF VerifyPassword(entered[p], pwFile) THEN DeletePassword(pwFile) ELSE pwFile
    /\ entered' = [entered EXCEPT ![p] = EmptyStr]
    /\ UNCHANGED <<test, wake, now, tmpFile, sig, h, pc, act, sched, tpc,
                   tray, win, att, nAtt, hist>>

\* "if password.verify_password(entered):"; entered is not read again.
MonVerify(p) ==
    /\ mpc[p] = "verify"
    /\ mpc' = [mpc EXCEPT ![p] =
                 IF VerifyPassword(entered[p], pwFile) THEN "cancel" ELSE "nack"]
    /\ entered' = [entered EXCEPT ![p] = EmptyStr]
    /\ UNCHANGED <<test, wake, now, pwFile, tmpFile, sig, h, pc, act, sched, tpc,
                   tray, win, att, nAtt, hist>>

\* cancel() that flips the event instead of setting it.
SchedCancelFlips(s) == [s EXCEPT !.cancel_event = ~@]

\* ShutdownScheduler.cancel(): self._cancel_event.set()
SchedCancel(s) == [s EXCEPT !.cancel_event = TRUE]

MonCancel(p) ==
    /\ mpc[p] = "cancel"
    /\ sched' = [sched EXCEPT ![p] = SchedCancel(@)]
    /\ mpc' = [mpc EXCEPT ![p] = "ack"]
    /\ UNCHANGED <<test, wake, now, pwFile, tmpFile, sig, h, pc, act, tpc, entered,
                   tray, win, att, nAtt, hist>>

\* ipc.send_ack(): SetEvent(_ack_handle) unless the handle is None.
SendAck(s, hp) == IF hp["ack"] THEN [s EXCEPT !["ack"] = TRUE] ELSE s

MonAck(p) ==
    /\ mpc[p] = "ack"
    /\ sig' = SendAck(sig, h[p])
    /\ hist' = [hist EXCEPT !.acked = IF h[p]["ack"] THEN @ \cup {p} ELSE @,
                            !.resp[p] = IF h[p]["ack"] THEN @ \cup {"ack"} ELSE @]
    /\ att' = IF h[p]["ack"] THEN Release(att, "ack") ELSE att
    /\ mpc' = [mpc EXCEPT ![p] = "destroy"]
    /\ UNCHANGED <<test, wake, now, pwFile, tmpFile, h, pc, act, sched, tpc, entered,
                   tray, win, nAtt>>

MonDestroy(p) ==
    /\ mpc[p] = "destroy"
    /\ h' = [h EXCEPT ![p] = DestroyServerObjects(p)]
    /\ sig' = Norm(sig, h', att)
    /\ hist' = HistSig(hist, sig')
    /\ mpc' = [mpc EXCEPT ![p] = "delpw"]
    /\ UNCHANGED <<test, wake, now, pwFile, tmpFile, pc, act, sched, tpc, entered,
                   tray, win, att, nAtt>>

MonDelPw(p) ==
    /\ mpc[p] = "delpw"
    /\ pwFile' = DeletePassword(pwFile)
    /\ mpc' = [mpc EXCEPT ![p] = "tray"]
    /\ UNCHANGED <<test, wake, now, tmpFile, sig, h, pc, act, sched, tpc, entered,
                   tray, win, att, nAtt, hist>>

\* "_tray.stop(); break"
MonTray(p) ==
    /\ mpc[p] = "tray"
    /\ tray' = [tray EXCEPT ![p] = TrayStop(@)]
    /\ mpc' = [mpc EXCEPT ![p] = "done"]
    /\ UNCHANGED <<test, wake, now, pwFile, tmpFile, sig, h, pc, act, sched, tpc, entered,
                   win, att, nAtt, hist>>

\* send_nack with the body of send_ack pasted in (sets the Ack event instead).
SendNackSetsAck(s, hp) == IF hp["ack"] THEN [s EXCEPT !["ack"] = TRUE] ELSE s

\* ipc.send_nack(): SetEvent(_nack_handle) unless the handle is None.
SendNack(s, hp) == IF hp["nack"] THEN [s EXCEPT !["nack"] = TRUE] ELSE s

MonNack(p) ==
    /\ mpc[p] = "nack"
    /\ sig' = SendNack(sig, h[p])
    /\ att' = IF h[p]["nack"] THEN Release(att, "nack") ELSE att
    /\ hist' = [hist EXCEPT !.resp[p] = IF h[p]["nack"] THEN @ \cup {"nack"} ELSE @]
    /\ mpc' = [mpc EXCEPT ![p] = "reset"]
    /\ UNCHANGED <<test, wake, now, pwFile, tmpFile, h, pc, act, sched, tpc, entered,
                   tray, win, nAtt>>

\* reset_for_next_attempt that resets the ack event as well.
ResetAllEvents(s, hp) == [e \in Events |-> IF hp[e] THEN FALSE ELSE s[e]]

\* ipc.reset_for_next_attempt(): ResetEvent on the cancel and nack handles
\* that are not None.
ResetForNextAttempt(s, hp) ==
    [e \in Events |->
        IF e = "cancel" /\ hp["cancel"] THEN FALSE
        ELSE IF e = "nack" /\ hp["nack"] THEN FALSE
        ELSE s[e]]

\* The loop then calls wait_for_cancel again.  A cancel signal that is reset
\* here without a monitor having woken up for it (hist.unseen) is lost.
MonReset(p) ==
    /\ mpc[p] = "reset"
    /\ sig' = ResetForNextAttempt(sig, h[p])
    /\ mpc' = [mpc EXCEPT ![p] = WaitForCancel(h[p], sig')]
    /\ hist' = HistEnter(
                 HistSig([hist EXCEPT !.resp[p] = {}], sig'), p, mpc'[p])
    /\ UNCHANGED <<test, wake, now, pwFile, tmpFile, h, pc, act, sched, tpc, entered,
                   tray, win, att, nAtt>>

\* ----------------------------------------- main.py: run_deactivation()
\* "needs_pw = password.has_password()", then the window is built and shown.
DeactInit(p) ==
    /\ pc[p] = "deactivation"
    /\ win' = [win EXCEPT ![p] = [needs_password |-> HasPassword(pwFile),
                                  loading |-> FALSE, pw_var |-> EmptyStr]]
    /\ pc' = [pc EXCEPT ![p] = "dwindow"]
    /\ UNCHANGED <<test, wake, now, pwFile, tmpFile, sig, h, act, sched, tpc, mpc, entered,
                   tray, att, nAtt, hist>>

\* A process that took the first-instance path and has not ended.
PrimaryExists == \E q \in Procs : hist.role[q] = "primary" /\ pc[q] # "exited"

\* An attempt is outstanding from _submit until on_submit has returned.
Outstanding(a) ==
    a.pc \in {"write", "signal", "open_ack", "open_nack", "wait", "blocked", "woken"}
AnyOutstanding == \E q \in Procs, i \in Attempts : Outstanding(att[q][i])

\* DeactivationWindow._submit: pw = _pw_var.get(); _set_loading(); a new
\* thread runs _do_check(pw).  text is what the entry holds: the user can
\* change it only while the entry exists and is enabled.  History: first = no
\* text submitted before this one would have passed verify_password;
\* hist.overlap = some submit came while another attempt was outstanding.
Submit(p, text) ==
    /\ pc[p] = "dwindow"
    /\ nAtt[p] < MaxAttempts
    /\ IF win[p].needs_password /\ ~win[p].loading
       THEN text \in Typed
       ELSE text = win[p].pw_var
    /\ nAtt' = [nAtt EXCEPT ![p] = @ + 1]
    /\ att' = [att EXCEPT ![p][nAtt[p] + 1] =
                 [NoAttempt EXCEPT !.pc = "write", !.pw = text, !.first = ~hist.okSent]]
    /\ win' = [win EXCEPT ![p].loading = TRUE, ![p].pw_var = text]
    /\ hist' = [hist EXCEPT !.overlap = @ \/ AnyOutstanding,
                            !.okSent = @ \/ VerifyPassword(text, pwFile)]
    /\ UNCHANGED <<test, wake, now, pwFile, tmpFile, sig, h, pc, act, sched, tpc, mpc, entered, tray>>

\* The "Cancel timer" button (command=self._submit): only while it is enabled.
SubmitButton(p) ==
    /\ ~win[p].loading
    /\ \E text \in Typed \cup {EmptyStr} : Submit(p, text)

\* self._root.bind("<Return>", ...): bound when a password is needed, and
\* not unbound or checked while the button is disabled.
SubmitReturn(p) ==
    /\ win[p].needs_password
    /\ \E text \in Typed \cup {EmptyStr} : Submit(p, text)

\* ipc.signal_cancel, first statement: _TEMP_REQUEST.write_text(password)
AttWrite(p, i) ==
    /\ pc[p] = "dwindow"
    /\ att[p][i].pc = "write"
    /\ tmpFile' = <<WriteText(att[p][i].pw)>>
    /\ att' = [att EXCEPT ![p][i].pc = "signal"]
    /\ UNCHANGED <<test, wake, now, pwFile, sig, h, pc, act, sched, tpc, mpc, entered,
                   tray, win, nAtt, hist>>

\* ipc.signal_cancel, the rest: OpenEvent, SetEvent, CloseHandle; a failed
\* OpenEvent is swallowed.
Blocked(q) == mpc[q] = "wait" /\ h[q]["cancel"]

AttSignal(p, i) ==
    /\ pc[p] = "dwindow"
    /\ att[p][i].pc = "signal"
    /\ IF ObjExists("cancel")
       THEN /\ sig' = [sig EXCEPT !["cancel"] = TRUE]
            /\ mpc' = [q \in Procs |-> IF Blocked(q) THEN "read" ELSE mpc[q]]
            /\ hist' = [hist EXCEPT
                  !.raisers = @ \cup {<<p, i, att[p][i].pw>>},
                  !.unseen = IF \E q \in Procs : Blocked(q) THEN {}
                             ELSE @ \cup {<<p, i, att[p][i].pw>>},
                  !.seen = [q \in Procs |->
                              IF Blocked(q) THEN hist.raisers \cup {<<p, i, att[p][i].pw>>}
                              ELSE @[q]]]
       ELSE UNCHANGED <<sig, mpc, hist>>
    /\ att' = [att EXCEPT ![p][i].pc = "open_ack"]
    /\ UNCHANGED <<test, wake, now, pwFile, tmpFile, h, pc, act, sched, tpc, entered,
                   tray, win, nAtt>>

\* ipc.wait_for_response: OpenEvent(_ACK_NAME); pywintypes.error -> "timeout".
\* History: alone = no first-instance process existed when the call began.
AttOpenAck(p, i) ==
    /\ pc[p] = "dwindow"
    /\ att[p][i].pc = "open_ack"
    /\ att' = [att EXCEPT ![p][i] =
                 IF ObjExists("ack")
                 THEN [@ EXCEPT !.pc = "open_nack", !.ackH = TRUE, !.alone = ~PrimaryExists]
                 ELSE [@ EXCEPT !.pc = "woken", !.res = "timeout", !.alone = ~PrimaryExists]]
    /\ UNCHANGED <<test, wake, now, pwFile, tmpFile, sig, h, pc, act, sched, tpc, mpc, entered,
                   tray, win, nAtt, hist>>

\* OpenEvent(_NACK_NAME); on pywintypes.error the ack handle is dropped and
\* the result is "timeout".
AttOpenNack(p, i) ==
    /\ pc[p] = "dwindow"
    /\ att[p][i].pc = "open_nack"
    /\ att' = [att EXCEPT ![p][i] =
                 IF ObjExists("nack")
                 THEN [@ EXCEPT !.pc = "wait", !.nackH = TRUE]
                 ELSE [@ EXCEPT !.pc = "woken", !.res = "timeout", !.ackH = FALSE]]
    /\ sig' = Norm(sig, h, att')
    /\ UNCHANGED <<test, wake, now, pwFile, tmpFile, h, pc, act, sched, tpc, mpc, entered,
                   tray, win, nAtt, hist>>

\* WaitForMultipleObjects([ack_h, nack_h], False, 5000) is called: it returns
\* at once with the lowest signalled index, or the thread blocks.
WaitResult(s) ==
    IF s["ack"] THEN "ack" ELSE IF s["nack"] THEN "nack" ELSE "none"

AttWait(p, i) ==
    /\ pc[p] = "dwindow"
    /\ att[p][i].pc = "wait"
    /\ att' = [att EXCEPT ![p][i] =
                 IF WaitResult(sig) = "none"
                 THEN [@ EXCEPT !.pc = "blocked"]
                 ELSE [@ EXCEPT !.pc = "woken", !.res = WaitResult(sig)]]
    /\ UNCHANGED <<test, wake, now, pwFile, tmpFile, sig, h, pc, act, sched, tpc, mpc, entered,
                   tray, win, nAtt, hist>>

\* A primary that is about to answer: its monitor is between waking up and
\* SetEvent, or is about to find the cancel event signalled.  The 5000 ms of the
\* wait are taken to outlast such an answer.
Responding(q) ==
    \/ mpc[q] \in {"read", "verify", "cancel", "ack", "nack"}
    \/ /\ sig["cancel"]
       /\ h[q]["cancel"]
       /\ \/ pc[q] = "schedule"
          \/ mpc[q] = "check" /\ IsActive(q)

\* The wait ends with WAIT_TIMEOUT.
AttTimeout(p, i) ==
    /\ pc[p] = "dwindow"
    /\ att[p][i].pc = "blocked"
    /\ \A q \in Procs : ~Responding(q)
    /\ att' = [att EXCEPT ![p][i].pc = "woken", ![p][i].res = "timeout"]
    /\ UNCHANGED <<test, wake, now, pwFile, tmpFile, sig, h, pc, act, sched, tpc, mpc, entered,
                   tray, win, nAtt, hist>>

\* DeactivationWindow._on_result
OnResult(w, result) ==
    IF result = "nack"
    THEN [w EXCEPT !.loading = FALSE,
                   !.pw_var = IF w.needs_password THEN EmptyStr ELSE @]
    ELSE w

\* wait_for_response closes its handles and returns; on_submit returns and
\* _on_result runs in the window's thread.
AttReturn(p, i) ==
    /\ pc[p] = "dwindow"
    /\ att[p][i].pc = "woken"
    /\ att' = [att EXCEPT ![p][i] = [NoAttempt EXCEPT !.pc = "done"]]
    /\ sig' = Norm(sig, h, att')
    /\ win' = [win EXCEPT ![p] = OnResult(@, att[p][i].res)]
    /\ UNCHANGED <<test, wake, now, pwFile, tmpFile, h, pc, act, sched, tpc, mpc, entered,
                   tray, nAtt, hist>>

\* The window is destroyed (by the user, or 2.5 s after "ack", 3 s after
\* "timeout"), mainloop returns and the process ends with its threads.
DeactClose(p) ==
    /\ pc[p] = "dwindow"
    /\ pc' = [pc EXCEPT ![p] = "exited"]
    /\ att' = [att EXCEPT ![p] = [i \in Attempts |->
                 IF Outstanding(att[p][i])
                 THEN [NoAttempt EXCEPT !.pc = "done"]
                 ELSE att[p][i]]]
    /\ sig' = Norm(sig, h, att')
    /\ win' = [win EXCEPT ![p] = [needs_password |-> FALSE, loading |-> FALSE, pw_var |-> EmptyStr]]
    /\ UNCHANGED <<test, wake, now, pwFile, tmpFile, h, act, sched, tpc, mpc, entered,
                   tray, nAtt, hist>>

\* ------------------------------------------------------------------ Next
Next ==
    \/ Tick
    \/ \E p \in Procs :
          \/ Launch(p) \/ Main(p)
          \/ ActCleanup(p) \/ ActActivate(p) \/ ActClose(p) \/ ActUninstall(p)
          \/ ActSetPw(p) \/ ActCreate(p) \/ ActSchedule(p) \/ ActExit(p)
          \/ TimerExpire(p) \/ TimerCancelled(p)
          \/ CbDestroy(p) \/ CbTray(p) \/ CbDelPw(p) \/ CbShutdown(p)
          \/ MonTimeout(p) \/ MonWaitClosed(p) \/ MonCheck(p)
          \/ MonRead(p) \/ MonVerify(p)
          \/ MonCancel(p) \/ MonAck(p) \/ MonDestroy(p) \/ MonDelPw(p) \/ MonTray(p)
          \/ MonNack(p) \/ MonReset(p)
          \/ DeactInit(p) \/ SubmitButton(p) \/ SubmitReturn(p) \/ DeactClose(p)
          \/ \E i \in Attempts :
                \/ AttWrite(p, i) \/ AttSignal(p, i)
                \/ AttOpenAck(p, i) \/ AttOpenNack(p, i)
                \/ AttWait(p, i) \/ AttTimeout(p, i) \/ AttReturn(p, i)

Spec == Init /\ [][Next]_vars

\* ------------------------------------------------- the program, fairly
\* The two daemon threads of a process are threads of the operating system:
\* a thread that can take a step is scheduled in the end.  Nothing is assumed
\* of the clock, of the users or of the main threads.
TimerThread(p) ==
    \/ TimerExpire(p) \/ TimerCancelled(p)
    \/ CbDestroy(p) \/ CbTray(p) \/ CbDelPw(p) \/ CbShutdown(p)

MonitorThread(p) ==
    \/ MonTimeout(p) \/ MonWaitClosed(p) \/ MonCheck(p)
    \/ MonRead(p) \/ MonVerify(p)
    \/ MonCancel(p) \/ MonAck(p) \/ MonDestroy(p) \/ MonDelPw(p) \/ MonTray(p)
    \/ MonNack(p) \/ MonReset(p)

\* The steps of the program when the user of the deactivation window presses
\* the button only (no Return key), so that attempts do not overlap.
ButtonNext ==
    \/ Tick
    \/ \E p \in Procs :
          \/ Launch(p) \/ Main(p)
          \/ ActCleanup(p) \/ ActActivate(p) \/ ActClose(p) \/ ActUninstall(p)
          \/ ActSetPw(p) \/ ActCreate(p) \/ ActSchedule(p) \/ ActExit(p)
          \/ TimerExpire(p) \/ TimerCancelled(p)
          \/ CbDestroy(p) \/ CbTray(p) \/ CbDelPw(p) \/ CbShutdown(p)
          \/ MonTimeout(p) \/ MonWaitClosed(p) \/ MonCheck(p)
          \/ MonRead(p) \/ MonVerify(p)
          \/ MonCancel(p) \/ MonAck(p) \/ MonDestroy(p) \/ MonDelPw(p) \/ MonTray(p)
          \/ MonNack(p) \/ MonReset(p)
          \/ DeactInit(p) \/ SubmitButton(p) \/ DeactClose(p)
          \/ \E i \in Attempts :
                \/ AttWrite(p, i) \/ AttSignal(p, i)
                \/ AttOpenAck(p, i) \/ AttOpenNack(p, i)
                \/ AttWait(p, i) \/ AttTimeout(p, i) \/ AttReturn(p, i)

LiveSpec ==
    /\ Init /\ [][ButtonNext]_vars
    /\ \A p \in Procs : WF_vars(TimerThread(p)) /\ WF_vars(MonitorThread(p))

\* ======================================= core/password.py on its own
\* A caller (src/tests/test_password.py calls the module this way) uses
\* set_password, verify_password, has_password and delete_password in any
\* order, with one bcrypt build.
Long72 == [k \in 1..BcryptMax |-> "a"]
PwTexts == {EmptyStr, <<"a">>, <<"b">>, <<"a", "b">>, <<"eacute">>,
            Long72, Long72 \o <<"x">>, Long72 \o <<"y">>}

PwInit ==
    /\ now = 0 /\ pwFile = <<>> /\ tmpFile = <<>>
    /\ sig = [e \in Events |-> FALSE]
    /\ h = [p \in Procs |-> NoHandles]
    /\ pc = [p \in Procs |-> "off"]
    /\ act = [p \in Procs |-> [minutes |-> 0, password |-> EmptyStr]]
    /\ sched = [p \in Procs |-> NoSched]
    /\ tpc = [p \in Procs |-> "none"]
    /\ mpc = [p \in Procs |-> "none"]
    /\ entered = [p \in Procs |-> EmptyStr]
    /\ tray = [p \in Procs |-> "none"]
    /\ win = [p \in Procs |-> [needs_password |-> FALSE, loading |-> FALSE, pw_var |-> EmptyStr]]
    /\ att = [p \in Procs |-> [i \in Attempts |-> NoAttempt]]
    /\ nAtt = [p \in Procs |-> 0]
    /\ hist = <<>>
    /\ wake = NoWake
    /\ \E b \in BcryptBuilds : test = [NoTest EXCEPT !.bcrypt = b]

\* set_password(plain): hashpw raises before anything is written, or the
\* hash replaces the file.
PwSet(plain) ==
    /\ IF BcryptRaises(plain)
       THEN /\ pwFile' = pwFile
            /\ test' = [test EXCEPT !.op = "set_password", !.arg = plain, !.ret = "ValueError"]
       ELSE /\ \E s \in Salts : pwFile' = SetPassword(plain, s)
            /\ test' = [test EXCEPT !.op = "set_password", !.arg = plain, !.ret = "None"]
    /\ UNCHANGED <<now, tmpFile, sig, h, pc, act, sched, tpc, mpc, entered,
                   tray, win, att, nAtt, hist, wake>>

PwVerify(plain) ==
    /\ test' = [test EXCEPT !.op = "verify_password", !.arg = plain,
                            !.ret = VerifyPassword(plain, pwFile)]
    /\ UNCHANGED <<now, pwFile, tmpFile, sig, h, pc, act, sched, tpc, mpc, entered,
                   tray, win, att, nAtt, hist, wake>>

PwHas ==
    /\ test' = [test EXCEPT !.op = "has_password", !.arg = <<>>,
                            !.ret = HasPassword(pwFile)]
    /\ UNCHANGED <<now, pwFile, tmpFile, sig, h, pc, act, sched, tpc, mpc, entered,
                   tray, win, att, nAtt, hist, wake>>

PwDelete ==
    /\ pwFile' = (IF HasPassword(pwFile) THEN DeletePassword(pwFile) ELSE pwFile)
    /\ test' = [test EXCEPT !.op = "delete_password", !.arg = <<>>, !.ret = "None"]
    /\ UNCHANGED <<now, tmpFile, sig, h, pc, act, sched, tpc, mpc, entered,
                   tray, win, att, nAtt, hist, wake>>

PwNext ==
    \/ \E plain \in PwTexts : PwSet(plain) \/ PwVerify(plain)
    \/ PwHas
    \/ PwDelete

PwSpec == PwInit /\ [][PwNext]_vars

\* ========================================== the mailbox on its own
\* A caller (src/tests/test_ipc.py, TestTempFile) uses signal_cancel and
\* read_cancel_password with no first instance running: OpenEvent fails in
\* signal_cancel and is swallowed.  hist.written is history: what the last
\* signal_cancel since the last read was given, <<>> when there was none.
MaxTextLen == 3
MailChars == {"a", "CR", "LF", "eacute"}

RECURSIVE TextsUpTo(_)
TextsUpTo(n) ==
    IF n = 0 THEN {<<>>}
    ELSE LET shorter == TextsUpTo(n - 1)
         IN  shorter \cup {Append(t, c) : t \in {u \in shorter : Len(u) = n - 1},
                                          c \in MailChars}

MailTexts == TextsUpTo(MaxTextLen)

MailInit ==
    /\ now = 0 /\ pwFile = <<>> /\ tmpFile = <<>>
    /\ sig = [e \in Events |-> FALSE]
    /\ h = [p \in Procs |-> NoHandles]
    /\ pc = [p \in Procs |-> "off"]
    /\ act = [p \in Procs |-> [minutes |-> 0, password |-> EmptyStr]]
    /\ sched = [p \in Procs |-> NoSched]
    /\ tpc = [p \in Procs |-> "none"]
    /\ mpc = [p \in Procs |-> "none"]
    /\ entered = [p \in Procs |-> EmptyStr]
    /\ tray = [p \in Procs |-> "none"]
    /\ win = [p \in Procs |-> [needs_password |-> FALSE, loading |-> FALSE, pw_var |-> EmptyStr]]
    /\ att = [p \in Procs |-> [i \in Attempts |-> NoAttempt]]
    /\ nAtt = [p \in Procs |-> 0]
    /\ hist = [written |-> <<>>]
    /\ wake = NoWake
    /\ test = NoTest

\* signal_cancel(password): write_text, then the OpenEvent that fails.
MailSignal(password) ==
    /\ ~ObjExists("cancel")
    /\ tmpFile' = <<WriteText(password)>>
    /\ hist' = [hist EXCEPT !.written = <<password>>]
    /\ test' = [test EXCEPT !.op = "signal_cancel", !.arg = password, !.ret = "None"]
    /\ UNCHANGED <<now, pwFile, sig, h, pc, act, sched, tpc, mpc, entered,
                   tray, win, att, nAtt, wake>>

\* read_cancel_password(); test.arg records hist.written of before the call.
MailRead ==
    /\ tmpFile' = ReadCancelPassword(tmpFile).file
    /\ hist' = [hist EXCEPT !.written = <<>>]
    /\ test' = [test EXCEPT !.op = "read_cancel_password", !.arg = hist.written,
                            !.ret = ReadCancelPassword(tmpFile).text]
    /\ UNCHANGED <<now, pwFile, sig, h, pc, act, sched, tpc, mpc, entered,
                   tray, win, att, nAtt, wake>>

MailNext ==
    \/ \E password \in MailTexts : MailSignal(password)
    \/ MailRead

MailSpec == MailInit /\ [][MailNext]_vars

\* ======================================== core/scheduler.py on its own
\* A caller (src/tests/test_scheduler.py calls the class this way) builds one
\* ShutdownScheduler with a callback that only records that it was called,
\* and uses schedule_duration, schedule_at, cancel and time_remaining in any
\* order while the sleep-timer thread runs _run.  The scheduler is sched[Obj],
\* its thread tpc[Obj].  History: hist.cb = calls of the callback since the
\* last schedule call that started a thread, hist.deadline = the _fire_at
\* that call set, hist.cancelled / hist.early = cancel() was called since
\* then / since then and before that deadline.
Obj == LaunchOrder[1]
MaxCalls == 4        \* calls of the caller
MaxClock == 3        \* the clock stops here
MaxDelay == 2        \* largest minutes / distance of a target from now

NoTimer == [cb |-> 0, deadline |-> -1, cancelled |-> FALSE, early |-> FALSE]

SchedInit ==
    /\ now = 0 /\ pwFile = <<>> /\ tmpFile = <<>>
    /\ sig = [e \in Events |-> FALSE]
    /\ h = [p \in Procs |-> NoHandles]
    /\ pc = [p \in Procs |-> "off"]
    /\ act = [p \in Procs |-> [minutes |-> 0, password |-> EmptyStr]]
    /\ sched = [p \in Procs |-> NoSched]
    /\ tpc = [p \in Procs |-> "none"]
    /\ mpc = [p \in Procs |-> "none"]
    /\ entered = [p \in Procs |-> EmptyStr]
    /\ tray = [p \in Procs |-> "none"]
    /\ win = [p \in Procs |-> [needs_password |-> FALSE, loading |-> FALSE, pw_var |-> EmptyStr]]
    /\ att = [p \in Procs |-> [i \in Attempts |-> NoAttempt]]
    /\ nAtt = [p \in Procs |-> 0]
    /\ hist = NoTimer
    /\ wake = NoWake
    /\ test = NoTest

\* The caller's record of a call.
Called(op, arg, ret) == [test EXCEPT !.n = @ + 1, !.op = op, !.arg = arg, !.ret = ret]

\* "if minutes < 0": schedule_duration letting zero through.
RejectsNegative(minutes) == minutes < 0

\* "if minutes <= 0: raise ValueError"
RejectsDuration(minutes) == minutes <= 0

\* "if target <= datetime.now(): raise ValueError"
RejectsTarget(target) == target <= now

\* The ValueError of schedule_duration and schedule_at: nothing was assigned.
Refuse(op, arg) ==
    /\ test' = Called(op, arg, "ValueError")
    /\ UNCHANGED <<sched, tpc, hist>>

\* "self._fire_at = ...; self._start()".  _start raises RuntimeError when the
\* thread is alive, after _fire_at was assigned; otherwise it clears the
\* event and starts the thread.
Schedule(op, arg, fire_at) ==
    IF IsActive(Obj)
    THEN /\ sched' = [sched EXCEPT ![Obj].fire_at = fire_at]
         /\ test' = Called(op, arg, "RuntimeError")
         /\ UNCHANGED <<tpc, hist>>
    ELSE /\ sched' = [sched EXCEPT ![Obj] = [fire_at |-> fire_at, cancel_event |-> FALSE]]
         /\ tpc' = [tpc EXCEPT ![Obj] = "start"]
         /\ hist' = [NoTimer EXCEPT !.deadline = fire_at]
         /\ test' = Called(op, arg, "None")

ApiDuration(minutes) ==
    /\ test.n < MaxCalls
    /\ IF RejectsDuration(minutes)
       THEN Refuse("schedule_duration", minutes)
       ELSE Schedule("schedule_duration", minutes, now + minutes)
    /\ UNCHANGED <<now, pwFile, tmpFile, sig, h, pc, act, mpc, entered,
                   tray, win, att, nAtt, wake>>

ApiAt(target) ==
    /\ test.n < MaxCalls
    /\ IF RejectsTarget(target)
       THEN Refuse("schedule_at", target)
       ELSE Schedule("schedule_at", target, target)
    /\ UNCHANGED <<now, pwFile, tmpFile, sig, h, pc, act, mpc, entered,
                   tray, win, att, nAtt, wake>>

ApiCancel ==
    /\ test.n < MaxCalls
    /\ sched' = [sched EXCEPT ![Obj] = SchedCancel(@)]
    /\ test' = Called("cancel", <<>>, "None")
    /\ hist' = IF hist.deadline = -1 THEN hist
               ELSE [hist EXCEPT !.cancelled = TRUE,
                                 !.early = @ \/ now < hist.deadline]
    /\ UNCHANGED <<now, pwFile, tmpFile, sig, h, pc, act, tpc, mpc, entered,
                   tray, win, att, nAtt, wake>>

\* time_remaining(): <<>> is None, <<d>> a timedelta of d.
TimeRemaining(s) ==
    IF s.fire_at = -1 THEN <<>>
    ELSE IF s.fire_at - now > 0 THEN <<s.fire_at - now>> ELSE <<0>>

ApiTimeRemaining ==
    /\ test.n < MaxCalls
    /\ test' = Called("time_remaining", <<>>, TimeRemaining(sched[Obj]))
    /\ UNCHANGED <<now, pwFile, tmpFile, sig, h, pc, act, sched, tpc, mpc, entered,
                   tray, win, att, nAtt, hist, wake>>

\* The is_active property: _thread is not None and _thread.is_alive().
ApiIsActive ==
    /\ test.n < MaxCalls
    /\ test' = Called("is_active", <<>>, IsActive(Obj))
    /\ UNCHANGED <<now, pwFile, tmpFile, sig, h, pc, act, sched, tpc, mpc, entered,
                   tray, win, att, nAtt, hist, wake>>

\* _run, "delay_s = (self._fire_at - datetime.now()).total_seconds()": the
\* thread goes into wait(timeout=delay_s), or past it with cancelled = False.
RunDelay ==
    /\ tpc[Obj] = "start"
    /\ IF sched[Obj].fire_at - now > 0
       THEN tpc' = [tpc EXCEPT ![Obj] = "wait"] /\ wake' = sched[Obj].fire_at
       ELSE tpc' = [tpc EXCEPT ![Obj] = "cb"] /\ wake' = wake
    /\ UNCHANGED <<now, pwFile, tmpFile, sig, h, pc, act, sched, mpc, entered,
                   tray, win, att, nAtt, hist, test>>

\* wait returns False: the timeout passed with the event unset.
RunTimeout ==
    /\ tpc[Obj] = "wait"
    /\ now >= wake
    /\ ~sched[Obj].cancel_event
    /\ tpc' = [tpc EXCEPT ![Obj] = "cb"]
    /\ wake' = NoWake
    /\ UNCHANGED <<now, pwFile, tmpFile, sig, h, pc, act, sched, mpc, entered,
                   tray, win, att, nAtt, hist, test>>

\* wait returns True: the thread ends without the callback.
RunCancelled ==
    /\ tpc[Obj] = "wait"
    /\ sched[Obj].cancel_event
    /\ tpc' = [tpc EXCEPT ![Obj] = "done"]
    /\ wake' = NoWake
    /\ UNCHANGED <<now, pwFile, tmpFile, sig, h, pc, act, sched, mpc, entered,
                   tray, win, att, nAtt, hist, test>>

\* "if not cancelled: self._callback()", and the thread ends.
RunCallback ==
    /\ tpc[Obj] = "cb"
    /\ tpc' = [tpc EXCEPT ![Obj] = "done"]
    /\ hist' = [hist EXCEPT !.cb = @ + 1]
    /\ UNCHANGED <<now, pwFile, tmpFile, sig, h, pc, act, sched, mpc, entered,
                   tray, win, att, nAtt, wake, test>>

ClockTick ==
    /\ now < MaxClock
    /\ now' = now + 1
    /\ UNCHANGED <<pwFile, tmpFile, sig, h, pc, act, sched, tpc, mpc, entered,
                   tray, win, att, nAtt, hist, wake, test>>

SchedNext ==
    \/ \E d \in -1..MaxDelay : ApiDuration(d) \/ ApiAt(now + d)
    \/ ApiCancel
    \/ ApiTimeRemaining
    \/ ApiIsActive
    \/ RunDelay \/ RunTimeout \/ RunCancelled \/ RunCallback
    \/ ClockTick

SchedSpec == SchedInit /\ [][SchedNext]_vars

\* ============================================== core/ipc.py on its own
\* Callers (src/tests/test_ipc.py calls the module this way) use the functions
\* of ipc.py in any order, each process with its own module handles h[p].
\* test.arg is <<process>> or <<process, password>>.
MaxIpcCalls == 5     \* calls of the callers

IpcInit ==
    /\ now = 0 /\ pwFile = <<>> /\ tmpFile = <<>>
    /\ sig = [e \in Events |-> FALSE]
    /\ h = [p \in Procs |-> NoHandles]
    /\ pc = [p \in Procs |-> "off"]
    /\ act = [p \in Procs |-> [minutes |-> 0, password |-> EmptyStr]]
    /\ sched = [p \in Procs |-> NoSched]
    /\ tpc = [p \in Procs |-> "none"]
    /\ mpc = [p \in Procs |-> "none"]
    /\ entered = [p \in Procs |-> EmptyStr]
    /\ tray = [p \in Procs |-> "none"]
    /\ win = [p \in Procs |-> [needs_password |-> FALSE, loading |-> FALSE, pw_var |-> EmptyStr]]
    /\ att = [p \in Procs |-> [i \in Attempts |-> NoAttempt]]
    /\ nAtt = [p \in Procs |-> 0]
    /\ hist = [before |-> [e \in Events |-> FALSE]]
    /\ wake = NoWake
    /\ test = NoTest

\* What no function of ipc.py touches; hist.before is history: the events as
\* they were when the last call was made.
IpcFrame ==
    /\ hist' = [before |-> sig]
    /\ UNCHANGED <<now, pwFile, pc, act, sched, tpc, mpc, entered,
                   tray, win, att, nAtt, wake>>

IpcCreate(p) ==
    /\ test.n < MaxIpcCalls
    /\ h' = [h EXCEPT ![p] = CreateServerObjects(p)]
    /\ sig' = [e \in Events |-> IF ObjExists(e) THEN sig[e] ELSE FALSE]
    /\ test' = Called("create_server_objects", <<p>>, "None")
    /\ tmpFile' = tmpFile
    /\ IpcFrame

IpcDestroy(p) ==
    /\ test.n < MaxIpcCalls
    /\ h' = [h EXCEPT ![p] = DestroyServerObjects(p)]
    /\ sig' = Norm(sig, h', att)
    /\ test' = Called("destroy_server_objects", <<p>>, "None")
    /\ tmpFile' = tmpFile
    /\ IpcFrame

\* wait_for_cancel(timeout_ms) with nothing else going on during the wait.
IpcWaitForCancel(p) ==
    /\ test.n < MaxIpcCalls
    /\ test' = Called("wait_for_cancel", <<p>>, WaitForCancel(h[p], sig) = "read")
    /\ UNCHANGED <<h, sig, tmpFile>>
    /\ IpcFrame

IpcRead(p) ==
    /\ test.n < MaxIpcCalls
    /\ tmpFile' = ReadCancelPassword(tmpFile).file
    /\ test' = Called("read_cancel_password", <<p>>, ReadCancelPassword(tmpFile).text)
    /\ UNCHANGED <<h, sig>>
    /\ IpcFrame

IpcSendAck(p) ==
    /\ test.n < MaxIpcCalls
    /\ sig' = SendAck(sig, h[p])
    /\ test' = Called("send_ack", <<p>>, "None")
    /\ UNCHANGED <<h, tmpFile>>
    /\ IpcFrame

IpcSendNack(p) ==
    /\ test.n < MaxIpcCalls
    /\ sig' = SendNack(sig, h[p])
    /\ test' = Called("send_nack", <<p>>, "None")
    /\ UNCHANGED <<h, tmpFile>>
    /\ IpcFrame

IpcReset(p) ==
    /\ test.n < MaxIpcCalls
    /\ sig' = ResetForNextAttempt(sig, h[p])
    /\ test' = Called("reset_for_next_attempt", <<p>>, "None")
    /\ UNCHANGED <<h, tmpFile>>
    /\ IpcFrame

IpcIsFirstInstanceRunning(p) ==
    /\ test.n < MaxIpcCalls
    /\ test' = Called("is_first_instance_running", <<p>>, IsFirstInstanceRunning)
    /\ UNCHANGED <<h, sig, tmpFile>>
    /\ IpcFrame

\* signal_cancel(password): write_text, then OpenEvent, SetEvent, CloseHandle.
IpcSignalCancel(p, password) ==
    /\ test.n < MaxIpcCalls
    /\ tmpFile' = <<WriteText(password)>>
    /\ sig' = IF ObjExists("cancel") THEN [sig EXCEPT !["cancel"] = TRUE] ELSE sig
    /\ test' = Called("signal_cancel", <<p, password>>, "None")
    /\ h' = h
    /\ IpcFrame

\* wait_for_response(timeout_ms) with nothing else going on during the wait.
IpcWaitForResponse(p) ==
    /\ test.n < MaxIpcCalls
    /\ test' = Called("wait_for_response", <<p>>,
                      IF ~ObjExists("ack") \/ ~ObjExists("nack") THEN "timeout"
                      ELSE IF WaitResult(sig) = "none" THEN "timeout"
                      ELSE WaitResult(sig))
    /\ UNCHANGED <<h, sig, tmpFile>>
    /\ IpcFrame

\* The process ends: the system closes the handles it still holds.
IpcExit(p) ==
    /\ test.n < MaxIpcCalls
    /\ h' = [h EXCEPT ![p] = NoHandles]
    /\ sig' = Norm(sig, h', att)
    /\ test' = Called("exit", <<p>>, "None")
    /\ tmpFile' = tmpFile
    /\ IpcFrame

IpcNext ==
    \E p \in Procs :
        \/ IpcCreate(p) \/ IpcDestroy(p)
        \/ IpcWaitForCancel(p) \/ IpcRead(p)
        \/ IpcSendAck(p) \/ IpcSendNack(p) \/ IpcReset(p)
        \/ IpcIsFirstInstanceRunning(p)
        \/ \E password \in Typed \cup {EmptyStr} : IpcSignalCancel(p, password)
        \/ IpcWaitForResponse(p)
        \/ IpcExit(p)

IpcSpec == IpcInit /\ [][IpcNext]_vars

\* ================================== the program with a primary that dies
\* The first-instance process is ended from outside (task manager, crash,
\* power loss of the session) at any point after main() took the
\* first-instance path: its threads stop and the system closes every handle
\* the process holds.  Nothing of the program runs for it: the password file
\* and the temp file stay as they are.
Kill(p) ==
    /\ hist.role[p] = "primary"
    /\ pc[p] # "exited"
    /\ pc' = [pc EXCEPT ![p] = "exited"]
    /\ tpc' = [tpc EXCEPT ![p] = IF @ = "none" THEN "none" ELSE "dead"]
    /\ mpc' = [mpc EXCEPT ![p] = IF @ = "none" THEN "none" ELSE "done"]
    /\ entered' = [entered EXCEPT ![p] = EmptyStr]
    /\ sched' = [sched EXCEPT ![p] = NoSched]
    /\ tray' = [tray EXCEPT ![p] = "none"]
    /\ h' = [h EXCEPT ![p] = NoHandles]
    /\ sig' = Norm(sig, h', att)
    /\ hist' = HistSig([hist EXCEPT !.resp[p] = {}, !.seen[p] = {}], sig')
    /\ UNCHANGED <<test, wake, now, pwFile, tmpFile, act, win, att, nAtt>>

CrashNext == ButtonNext \/ \E p \in Procs : Kill(p)

CrashSpec == Init /\ [][CrashNext]_vars

\* ================================ the program started again after an exit
\* The program is started once more after one of its processes has ended: a
\* new process, which starts from main() with nothing of the ended one but
\* what the files and the named objects hold.  It is followed in the place
\* of the ended process.  hist.relaunched counts these launches.
MaxRelaunch == 1

RelaunchInit ==
    /\ now = 0 /\ pwFile = <<>> /\ tmpFile = <<>>
    /\ sig = [e \in Events |-> FALSE]
    /\ h = [p \in Procs |-> NoHandles]
    /\ pc = [p \in Procs |-> "off"]
    /\ act = [p \in Procs |-> [minutes |-> 0, password |-> EmptyStr]]
    /\ sched = [p \in Procs |-> NoSched]
    /\ tpc = [p \in Procs |-> "none"]
    /\ mpc = [p \in Procs |-> "none"]
    /\ entered = [p \in Procs |-> EmptyStr]
    /\ tray = [p \in Procs |-> "none"]
    /\ win = [p \in Procs |-> [needs_password |-> FALSE, loading |-> FALSE, pw_var |-> EmptyStr]]
    /\ att = [p \in Procs |-> [i \in Attempts |-> NoAttempt]]
    /\ nAtt = [p \in Procs |-> 0]
    /\ hist = [role |-> [p \in Procs |-> "none"],
               fired |-> {}, acked |-> {}, shut |-> {},
               raisers |-> {}, unseen |-> {},
               seen |-> [p \in Procs |-> {}],
               resp |-> [p \in Procs |-> {}],
               okSent |-> FALSE, overlap |-> FALSE,
               relaunched |-> 0]
    /\ wake = NoWake
    /\ test = NoTest

Relaunch(p) ==
    /\ pc[p] = "exited"
    /\ hist.relaunched < MaxRelaunch
    /\ pc' = [pc EXCEPT ![p] = "main"]
    /\ act' = [act EXCEPT ![p] = [minutes |-> 0, password |-> EmptyStr]]
    /\ sched' = [sched EXCEPT ![p] = NoSched]
    /\ tpc' = [tpc EXCEPT ![p] = "none"]
    /\ mpc' = [mpc EXCEPT ![p] = "none"]
    /\ entered' = [entered EXCEPT ![p] = EmptyStr]
    /\ tray' = [tray EXCEPT ![p] = "none"]
    /\ win' = [win EXCEPT ![p] = [needs_password |-> FALSE, loading |-> FALSE,
                                  pw_var |-> EmptyStr]]
    /\ att' = [att EXCEPT ![p] = [i \in Attempts |-> NoAttempt]]
    /\ nAtt' = [nAtt EXCEPT ![p] = 0]
    /\ hist' = [hist EXCEPT !.role[p] = "none",
                            !.fired = @ \ {p}, !.acked = @ \ {p}, !.shut = @ \ {p},
                            !.seen[p] = {}, !.resp[p] = {},
                            !.relaunched = @ + 1]
    /\ UNCHANGED <<test, wake, now, pwFile, tmpFile, sig, h>>

RelaunchNext == ButtonNext \/ \E p \in Procs : Relaunch(p)

RelaunchSpec == RelaunchInit /\ [][RelaunchNext]_vars

\* ================================================================ claims
Pending(p) == tpc[p] = "wait"

\* C1: at most one schedule is active system-wide: never do two processes both
\* hold a pending countdown.
C1_AtMostOneSchedule ==
    \A p, q \in Procs : p # q => ~(Pending(p) /\ Pending(q))

\* C2: when processes race to become primary, a create_server_objects call
\* made while the presence marker (the mutex) already exists does not succeed:
\* no process gets its mutex handle from a mutex that was already there.
C2_CreateFailsWhenMarkerExists ==
    [][\A p \in Procs :
          (~h[p]["mutex"] /\ h'[p]["mutex"]) => ~ObjExists("mutex")]_vars

\* The one primary p (activated with a password, timer not expired) and its
\* one secondary q, whose attempts never overlapped.
C3_Setting(p, q) ==
    /\ hist.role[p] = "primary"
    /\ \A r \in Procs \ {p} : hist.role[r] # "primary"
    /\ hist.role[q] = "secondary"
    /\ act[p].password # EmptyStr
    /\ p \notin hist.fired
    /\ ~hist.overlap

\* C3: with a live primary whose timer does not expire, a configured secret
\* and one secondary issuing attempts one after another, an attempt with a
\* wrong credential returns "nack" and one with the right credential returns
\* "ack" (up to and including the first right one); none returns "timeout".
C3_AttemptsAnswered ==
    \A p, q \in Procs : \A i \in Attempts :
        (C3_Setting(p, q) /\ att[q][i].pc = "woken" /\ att[q][i].first)
        => att[q][i].res = (IF att[q][i].pw = act[p].password THEN "ack" ELSE "nack")

\* C4: Ack and Fired are mutually exclusive in one primary lifetime: a primary
\* that has signalled Ack never has its timer callback invoked, before or after.
C4_AckExcludesFire ==
    \A p \in Procs : ~(p \in hist.acked /\ p \in hist.fired)

\* C5: reset_for_next_attempt after a failed attempt never clears a cancel
\* signal that belongs to a later attempt (one the primary has not woken up
\* for), even when the attempts come strictly one after another: no secondary
\* signal is lost.
C5_NoSignalLost ==
    [][\A p \in Procs :
          (/\ mpc[p] = "reset" /\ mpc'[p] # "reset"
           /\ sig["cancel"] /\ ~sig'["cancel"]
           /\ ~hist.overlap)
          => hist.unseen = {}]_vars

AttemptsOutstanding ==
    {a \in AttIds : Outstanding(att[a[1]][a[2]])}

\* C6: at most one handshake attempt is outstanding at any time: no
\* request_cancel (signal_cancel) is issued while an earlier one has not had
\* its wait_for_response return.
C6_OneAttemptOutstanding ==
    Cardinality(AttemptsOutstanding) <= 1

\* C7: the primary consumes the credential before it signals the response:
\* at the moment it sets the Ack or the Nack event the mailbox is empty.
C7_MailboxEmptyAtAnswer ==
    [][\A p \in Procs :
          (\/ mpc[p] = "ack" /\ mpc'[p] = "destroy" /\ h[p]["ack"]
           \/ mpc[p] = "nack" /\ mpc'[p] = "reset" /\ h[p]["nack"])
          => tmpFile' = <<>>]_vars

\* C8: handling a wrong credential (send_nack, then reset_for_next_attempt)
\* leaves the scheduler and its timer thread, the stored secret, the mailbox,
\* the handles of the object set and the Ack signal as they were; only the
\* Nack and CancelRequested signals change.
C8_NackPathFrame ==
    [][\A p \in Procs :
          (mpc[p] \in {"nack", "reset"} /\ mpc'[p] # mpc[p])
          => /\ sched' = sched
             /\ tpc' = tpc
             /\ pwFile' = pwFile
             /\ tmpFile' = tmpFile
             /\ h' = h
             /\ sig'["ack"] = sig["ack"]]_vars

\* C8 witness: a primary with a pending timer and a stored secret has sent
\* Nack and is about to reset.
C8_Witness ==
    \E p \in Procs :
        /\ mpc[p] = "reset" /\ sig["nack"] /\ h[p]["nack"]
        /\ Pending(p) /\ HasPassword(pwFile)

\* C9: a wait_for_response that begins when no primary process exists returns
\* "timeout", never "ack" or "nack".
C9_TimeoutWithoutPrimary ==
    \A p \in Procs : \A i \in Attempts :
        (att[p][i].pc = "woken" /\ att[p][i].alone) => att[p][i].res = "timeout"

\* C10: whenever the primary wakes up for a cancel signal raised by an attempt,
\* the mailbox holds the credential of that attempt.
C10_MailboxHoldsCredential ==
    [][\A p \in Procs :
          (mpc[p] # "read" /\ mpc'[p] = "read")
          => \E r \in hist'.seen[p] : tmpFile' = <<WriteText(r[3])>>]_vars

\* C11: for every cancel request the primary observes it sets exactly one of
\* the Ack and Nack events, never both and never neither, whether or not the
\* secondary still exists: when its monitor has passed send_ack or send_nack,
\* it has set one event for the request.
C11_RespondsExactlyOnce ==
    \A p \in Procs :
        mpc[p] \in {"destroy", "reset"} => Cardinality(hist.resp[p]) = 1

\* C12: verify_password(x) returns True for every candidate x whenever no
\* secret is configured (has_password() is False): fail-open.
C12_VerifyFailOpen ==
    (test.op = "verify_password" /\ ~HasPassword(pwFile)) => test.ret = TRUE

\* C12 witness: verify_password was called with a candidate longer than 72
\* bytes, under the bcrypt build that raises, while no password file existed.
C12_Witness ==
    /\ test.op = "verify_password" /\ ~HasPassword(pwFile)
    /\ test.bcrypt = "raises" /\ Len(test.arg) > BcryptMax

\* C13: for every secret s, after set_password(s): has_password() is True,
\* verify_password(s) is True and verify_password(s2) is False for every s2
\* different from s, the empty string included as s or s2.
C13_SetThenVerify ==
    test.op = "set_password"
    => /\ HasPassword(pwFile)
       /\ VerifyPassword(test.arg, pwFile)
       /\ \A s2 \in PwTexts \ {test.arg} : ~VerifyPassword(s2, pwFile)

\* C14: mailbox round trip: for every credential p, signal_cancel(p) and then
\* read_cancel_password() returns exactly p and removes the mailbox; a read
\* with nothing written since the last read returns the empty string.
C14_MailboxRoundTrip ==
    test.op = "read_cancel_password"
    => /\ tmpFile = <<>>
       /\ test.ret = (IF test.arg = <<>> THEN EmptyStr ELSE test.arg[1])

\* A call of schedule_duration or schedule_at is returning in this step.
ScheduleCall == test'.n = test.n + 1 /\ test'.op \in {"schedule_duration", "schedule_at"}

\* C15: after a schedule call that succeeded: if cancel() is called before the
\* deadline, the callback is never called; if cancel() is never called, the
\* callback is called exactly once (never twice, and once when the thread
\* has ended).
C15_CancelOrFireOnce ==
    /\ hist.early => hist.cb = 0
    /\ hist.cb <= 1
    /\ (tpc[Obj] = "done" /\ ~hist.cancelled) => hist.cb = 1

\* C16: cancel() never fails, whatever the state of the scheduler (nothing
\* scheduled, pending, fired, cancelled); a repeated cancel() leaves the
\* scheduler as the first one did; and cancel() never has the callback
\* called: not in the call, which starts nothing, and not by a thread that
\* waits with the event set.
C16_CancelIdempotent ==
    [][/\ (test'.n = test.n + 1 /\ test'.op = "cancel")
          => /\ test'.ret = "None"
             /\ SchedCancel(sched'[Obj]) = sched'[Obj]
             /\ sched'[Obj].fire_at = sched[Obj].fire_at
             /\ tpc' = tpc
             /\ hist'.cb = hist.cb
       /\ (tpc[Obj] = "wait" /\ sched[Obj].cancel_event) => tpc'[Obj] # "cb"]_vars

\* C16 witness: cancel() was called again on a scheduler that had fired and
\* had been cancelled before.
C16_Witness ==
    /\ test.op = "cancel" /\ test.n = MaxCalls
    /\ tpc[Obj] = "done" /\ hist.cb = 1 /\ sched[Obj].cancel_event

\* C17: schedule_duration(d) with d <= 0 and schedule_at(t) with t not
\* strictly in the future raise ValueError, start no wait and leave the
\* scheduler as it was: not active, time_remaining() still None, and the
\* callback not called.
C17_RejectsNonPositive ==
    [][(/\ ScheduleCall
        /\ \/ test'.op = "schedule_duration" /\ test'.arg <= 0
           \/ test'.op = "schedule_at" /\ test'.arg <= now)
       => /\ test'.ret = "ValueError"
          /\ sched' = sched /\ tpc' = tpc /\ wake' = wake
          /\ TimeRemaining(sched'[Obj]) = TimeRemaining(sched[Obj])
          /\ hist'.cb = hist.cb]_vars

\* C17 witness: schedule_duration(0) was refused on a scheduler on which
\* nothing had been scheduled.
C17_Witness ==
    /\ test.op = "schedule_duration" /\ test.arg = 0 /\ test.ret = "ValueError"
    /\ sched[Obj] = NoSched /\ tpc[Obj] = "none" /\ hist.cb = 0

\* The time at which the pending wait times out: the timeout of the wait the
\* thread is in, or the _fire_at the thread is about to read.
Due == IF tpc[Obj] = "wait" THEN wake ELSE sched[Obj].fire_at

\* C18: schedule_duration or schedule_at called with valid arguments while a
\* schedule is pending raises an error and leaves the pending schedule as it
\* is: it fires, or can be cancelled, at its original deadline, and no second
\* wait is started.
C18_DoubleScheduleRejected ==
    [][(/\ ScheduleCall
        /\ tpc[Obj] \in {"start", "wait"}
        /\ test'.ret # "ValueError")
       => /\ test'.ret = "RuntimeError"
          /\ tpc' = tpc
          /\ Due' = Due
          /\ sched'[Obj].cancel_event = sched[Obj].cancel_event]_vars

\* C19: Fired and Cancelled are terminal: once the thread of a schedule has
\* ended, no later schedule_duration or schedule_at call starts a new wait.
C19_TerminalStates ==
    [][tpc[Obj] = "done" => tpc'[Obj] = "done"]_vars

\* C20: time_remaining() is None before any schedule call that succeeded;
\* afterwards it is never negative: the deadline minus the current time, and
\* zero once the deadline has passed.  While a wait is pending the deadline
\* is the time at which that wait times out.
C20_TimeRemaining ==
    [][(test'.n = test.n + 1 /\ test'.op = "time_remaining")
       => test'.ret = (IF hist.deadline = -1 THEN <<>>
                       ELSE IF Due > now THEN <<Due - now>>
                       ELSE <<0>>)]_vars

\* A call of the ipc function op by process p is returning in this step.
IpcCall(op, p) == test'.n = test.n + 1 /\ test'.op = op /\ test'.arg[1] = p

\* C21: destroy_server_objects never fails and leaves all four handles of
\* the caller None; called when they are None already (nothing created, or
\* destroyed before) it changes nothing: no handle of any process, no event,
\* not the mailbox.
C21_DestroyIdempotent ==
    [][\A p \in Procs :
          IpcCall("destroy_server_objects", p)
          => /\ test'.ret = "None"
             /\ h'[p] = NoHandles
             /\ \A q \in Procs \ {p} : h'[q] = h[q]
             /\ tmpFile' = tmpFile
             /\ h[p] = NoHandles => (h' = h /\ sig' = sig)]_vars

\* C21 witness: destroy_server_objects was the first call ever made, with no
\* handle created.
C21_Witness ==
    test.op = "destroy_server_objects" /\ test.n = 1 /\ \A p \in Procs : h[p] = NoHandles

\* C21 in the whole program: the destroy_server_objects of the Ack path and
\* of the timer callback leave the handles None, and the later of the two
\* changes nothing.
C21_InProgram ==
    [][\A p \in Procs :
          (\/ mpc[p] = "destroy" /\ mpc'[p] = "delpw"
           \/ tpc[p] = "cb_destroy" /\ tpc'[p] = "cb_tray")
          => /\ h'[p] = NoHandles
             /\ h[p] = NoHandles => (h' = h /\ sig' = sig)]_vars

\* Both paths of one primary have called destroy_server_objects.
C21_BothPaths ==
    \E p \in Procs : mpc[p] \in {"delpw", "tray", "done"} /\ p \in hist.acked
                     /\ tpc[p] \in {"cb_tray", "cb_delpw", "cb_shutdown"}

\* The monitor of p takes a step from position r.
MonStep(p, r) == mpc[p] = r /\ mpc'[p] # r

C23_FireAtMostOnce ==
    [][\A p \in Procs :
          /\ (p \notin hist.shut /\ p \in hist'.shut)
             => (tpc[p] = "cb_shutdown" /\ tpc'[p] = "done")
          /\ p \in hist.shut => tpc'[p] \in {"done", "dead"}]_vars

\* C23 witness: a primary has called execute_shutdown, its timer thread has
\* ended and its monitor has left the loop.
C23_Witness ==
    \E p \in Procs : p \in hist.shut /\ tpc[p] = "done" /\ mpc[p] = "done"

\* C23 for the scheduler on its own: the callback is called at most once
\* after each schedule call that started a thread, and only by the step that
\* ends the thread.
C23_CallbackOnce ==
    [][/\ hist'.cb <= 1
       /\ hist'.cb > hist.cb => (tpc[Obj] = "cb" /\ tpc'[Obj] = "done")]_vars

\* C24: when a primary that has sent Ack or whose timer has expired ends, no
\* password file exists; and when the timer callback calls execute_shutdown,
\* none exists either.
C24_SecretDeleted ==
    [][\A p \in Procs :
          /\ (pc[p] = "join" /\ pc'[p] = "exited" /\ p \in hist.acked \cup hist.fired)
             => ~HasPassword(pwFile')
          /\ (p \notin hist.shut /\ p \in hist'.shut) => ~HasPassword(pwFile')]_vars

AllHandles == [o \in Objs |-> TRUE]

\* C25: however a first-instance process ended (it returned, or it was
\* ended between any two steps), it holds no handle afterwards; a main() that
\* runs when every other process has ended finds no mutex and takes the
\* first-instance path, and its create_server_objects gets the four handles
\* of objects that are new (no event signalled).
C25_PrimaryDeathReleases ==
    [][\A p \in Procs :
          /\ pc'[p] = "exited" => h'[p] = NoHandles
          /\ (pc[p] = "main" /\ pc'[p] # "main" /\ \A q \in Procs \ {p} : pc[q] = "exited")
             => pc'[p] = "activation"
          /\ (pc[p] = "create" /\ pc'[p] = "schedule" /\ \A q \in Procs \ {p} : pc[q] = "exited")
             => (h'[p] = AllHandles /\ \A e \in Events : ~sig'[e])]_vars

\* C25 witness: a first-instance process was ended with its countdown
\* pending (it neither sent Ack nor had its timer expire) and its password
\* file left behind; the process launched next has taken the first-instance
\* path and created the objects.
C25_Witness ==
    \E p, q \in Procs :
        /\ p # q
        /\ hist.role[p] = "primary" /\ pc[p] = "exited" /\ tpc[p] = "dead"
        /\ p \notin hist.acked /\ p \notin hist.fired
        /\ hist.role[q] = "primary" /\ pc[q] = "schedule" /\ h[q] = AllHandles

TimerStep(p, r) == tpc[p] = r /\ tpc'[p] \notin {r, "dead"}

C28_ResetFrame ==
    [][/\ \A p \in Procs :
             IpcCall("reset_for_next_attempt", p)
             => /\ test'.ret = "None"
                /\ h' = h /\ tmpFile' = tmpFile
                /\ sig'["ack"] = sig["ack"]
                /\ h[p] = AllHandles => (~sig'["cancel"] /\ ~sig'["nack"])
                /\ h[p] = NoHandles => sig' = sig
       /\ (sig["ack"] /\ HeldBy("ack", h', att')) => sig'["ack"]]_vars

\* C28 witness: reset_for_next_attempt was called with all three events
\* signalled and has left only the ack event signalled.
C28_Witness ==
    /\ test.op = "reset_for_next_attempt"
    /\ \A e \in Events : hist.before[e]
    /\ sig = [e \in Events |-> e = "ack"]

C30_IsActive ==
    /\ (tpc[Obj] = "wait" /\ sched[Obj].cancel_event) => ENABLED RunCancelled
    /\ (test.op = "is_active" /\ hist.deadline = -1) => test.ret = FALSE
    /\ [][/\ (test'.n = test.n + 1 /\ test'.op = "is_active")
             => /\ tpc[Obj] \in {"start", "wait"} => test'.ret = TRUE
                /\ tpc[Obj] \in {"none", "done"} => test'.ret = FALSE
          /\ (tpc[Obj] = "wait" /\ sched[Obj].cancel_event /\ tpc'[Obj] # "wait")
             => tpc'[Obj] = "done"
          /\ tpc[Obj] = "done" => ~IsActive(Obj)']_vars

\* C31: a primary activated with a non-empty password signals Ack (and cancels
\* its timer) only for the configured secret: its monitor, the timer callback
\* not begun, takes the branch of cancel() and send_ack() only when the text
\* it read from the mailbox is exactly the password given on activation.
C31_AckOnlyWithSecret ==
    [][\A p \in Procs :
          (/\ MonStep(p, "verify") /\ mpc'[p] = "cancel"
           /\ act[p].password # EmptyStr
           /\ p \notin hist.fired)
          => entered[p] = act[p].password]_vars

\* A primary that has stored its secret and has not ended, the password file
\* holding that secret.
SecretLive(p) ==
    /\ hist.role[p] = "primary"
    /\ act[p].password # EmptyStr
    /\ pc[p] \in {"create", "schedule", "join"}
    /\ HasPassword(pwFile)
    /\ CheckPw(act[p].password, pwFile[1])

\* C32: while a primary is live, from storing its secret until it ends, no
\* step of the main thread of another process (startup cleanup, set_password,
\* uninstall) deletes or replaces the stored secret.
C32_SecretUntouched ==
    [][\A p, q \in Procs :
          (p # q /\ SecretLive(p) /\ pc'[q] # pc[q]) => pwFile' = pwFile]_vars

\* C32, the part that holds: a process that found the mutex in main() never
\* changes the password file.
C32_SecondaryLeavesSecret ==
    [][\A q \in Procs :
          (hist.role[q] = "secondary" /\ pc'[q] # pc[q]) => pwFile' = pwFile]_vars

\* C33: the primary stores its secret before it creates the mutex: in every
\* state in which a primary activated with a password holds the mutex (so
\* that is_first_instance_running() can return True for it), has_password()
\* is True.
C33_SecretBeforeMarker ==
    \A p \in Procs :
        (/\ hist.role[p] = "primary"
         /\ act[p].password # EmptyStr
         /\ h[p]["mutex"])
        => HasPassword(pwFile)

\* C33, the part that holds (two launches): the same with no other process
\* on the first-instance path, and the file then holds that secret.
C33_AlonePrimary ==
    \A p \in Procs :
        (/\ hist.role[p] = "primary"
         /\ \A r \in Procs \ {p} : hist.role[r] # "primary"
         /\ act[p].password # EmptyStr
         /\ h[p]["mutex"])
        => HasPassword(pwFile) /\ CheckPw(act[p].password, pwFile[1])

\* C34: the Ack and the Nack event are never both signalled, in any reachable
\* state of the object set a primary holds.
C34_NeverAckAndNack ==
    ~(sig["ack"] /\ sig["nack"])

\* wait_for_response of attempt i of process p returns to on_submit.
AttReturns(p, i) ==
    att[p][i].pc = "woken" /\ att'[p][i].pc = "done" /\ pc'[p] = "dwindow"

\* C35: the plaintext credential does not outlive its attempt: when
\* wait_for_response has returned, whatever the outcome ("timeout" included,
\* and with no primary or no cancel event to open), the mailbox is empty.
C35_MailboxEmptyAfterOutcome ==
    [][\A p \in Procs : \A i \in Attempts :
          AttReturns(p, i) => tmpFile' = <<>>]_vars

\* C36: a schedule call that is refused because a schedule is pending
\* (RuntimeError) leaves the timer state as it was: _fire_at, and so the
\* result of time_remaining(), are the same before and after the call.
C36_RejectedLeavesDeadline ==
    [][(ScheduleCall /\ test'.ret = "RuntimeError")
       => /\ sched'[Obj].fire_at = sched[Obj].fire_at
          /\ TimeRemaining(sched'[Obj]) = TimeRemaining(sched[Obj])]_vars

\* C36, the part that holds: the refused call leaves the thread, the cancel
\* event and the timeout of a wait that has begun as they were.
C36_RejectedLeavesThread ==
    [][(ScheduleCall /\ test'.ret = "RuntimeError")
       => /\ tpc' = tpc /\ wake' = wake
          /\ sched'[Obj].cancel_event = sched[Obj].cancel_event]_vars

====
